---- MODULE Spec2Model ----
(***************************************************************************)
(* The game loop of Bounce (src/Bounce/Project1/bounce.cpp, declarations   *)
(* in game.h = src/unnamed/part_000).                                      *)
(*                                                                         *)
(* Numbers.  Every coordinate and velocity of the program is a float.      *)
(* The model keeps them as fixed-point integers, Scale units to the pixel, *)
(* and a product by 0.9 or 0.7 is cut to a whole number of units.  All the *)
(* level's coordinates, the speeds 5, 2 and 12 and the gravity 0.5 are     *)
(* exact in these units.                                                   *)
(*                                                                         *)
(* Library.  sf::Rect::intersects is SFML's: the two rectangles overlap    *)
(* with a strictly positive area (touching edges do not intersect).  The   *)
(* global bounds of a circle of radius r at position (x, y) are taken as   *)
(* the square [x, x + 2r] x [y, y + 2r].                                   *)
(***************************************************************************)
EXTENDS Integers, Sequences, FiniteSets, TLC

\* Units per pixel of the fixed-point representation of float.
Scale == 10

\* Frames of play explored from each start state.
MaxFrames == 3

\* Events handed out by window.pollEvent in one iteration of the loop.
MaxEvents == 2

Px(n) == n * Scale

Max(a, b) == IF a >= b THEN a ELSE b
Min(a, b) == IF a <= b THEN a ELSE b

--------------------------------------------------------------------------
(* The level: bounce.cpp lines 139-193.                                    *)

\* sf::RectangleShape of the given size at the given position: its bounds.
Rect(width, height, x, y) ==
    [left |-> Px(x), top |-> Px(y), width |-> Px(width), height |-> Px(height)]

PlayerRadius == Px(20)
CoinRadius == Px(10)
Spawn == [x |-> Px(400), y |-> Px(300)]

Gravity == Scale \div 2
JumpStrength == -Px(12)
MoveSpeed == Px(5)
ObstacleSpeed == Px(2)
CameraOffset == Px(200)

platforms ==
    << Rect(200, 20,  100, 550), Rect(150, 20,  350, 500),
       Rect(200, 20,  600, 400), Rect(150, 20,  900, 350),
       Rect(250, 20, 1250, 300), Rect(200, 20, 1700, 450),
       Rect(200, 20, 2100, 380), Rect(150, 20, 2600, 550),
       Rect(200, 20, 3100, 400), Rect(150, 20, 3700, 350),
       Rect(200, 20, 4200, 300) >>

goal == Rect(100, 20, 4700, 250)
floor == Rect(9000, 20, 0, 580)

walls ==
    << Rect(20, 180,  600, 420), Rect(20, 200, 1600, 450),
       Rect(20, 200, 3100, 400), Rect(20, 200, 3700, 350) >>

\* Obstacle::Obstacle: the shape, velocityX = 2 and the two limits.
Obstacle(width, height, x, y, leftLimit, rightLimit) ==
    [left |-> Px(x), top |-> Px(y), width |-> Px(width), height |-> Px(height),
     velocityX |-> ObstacleSpeed,
     leftLimit |-> Px(leftLimit), rightLimit |-> Px(rightLimit)]

\* Variant: the fourth obstacle's left limit where it meets the third wall.
initialObstaclesLimitAtWall ==
    << Obstacle(50, 50,  800, 530,  700, 1100),
       Obstacle(50, 50, 1500, 530, 1400, 1800),
       Obstacle(50, 50, 2300, 530, 2200, 2500),
       Obstacle(50, 50, 3200, 530, 3118, 3400),
       Obstacle(50, 50, 4000, 530, 3900, 4200) >>

initialObstacles ==
    << Obstacle(50, 50,  800, 530,  700, 1100),
       Obstacle(50, 50, 1500, 530, 1400, 1800),
       Obstacle(50, 50, 2300, 530, 2200, 2500),
       Obstacle(50, 50, 3200, 530, 3100, 3400),
       Obstacle(50, 50, 4000, 530, 3900, 4200) >>

defaultCoinPositions ==
    << [x |-> Px(500),  y |-> Px(500)],
       [x |-> Px(1200), y |-> Px(400)],
       [x |-> Px(2000), y |-> Px(450)] >>

--------------------------------------------------------------------------
(* Geometry.                                                               *)

\* sf::FloatRect::intersects, as used at bounce.cpp:100.
Intersects(a, b) ==
    /\ Max(a.left, b.left) < Min(a.left + a.width, b.left + b.width)
    /\ Max(a.top, b.top) < Min(a.top + a.height, b.top + b.height)

\* player.getGlobalBounds() for the player at position p.
PlayerBounds(p) ==
    [left |-> p.x, top |-> p.y,
     width |-> 2 * PlayerRadius, height |-> 2 * PlayerRadius]

\* coin.shape.getGlobalBounds() for a coin built at position c.
CoinBounds(c) ==
    [left |-> c.x, top |-> c.y,
     width |-> 2 * CoinRadius, height |-> 2 * CoinRadius]

\* obstacle.shape.getGlobalBounds().
ObstacleBounds(o) ==
    [left |-> o.left, top |-> o.top, width |-> o.width, height |-> o.height]

\* velocity.x *= groundFriction (0.9).  A float multiplied by 0.9 keeps its
\* sign and, for hundreds of frames, stays non-zero: at least one unit is kept.
Friction(v) ==
    IF v > 0 THEN Max(1, (v * 9) \div 10)
    ELSE IF v < 0 THEN -Max(1, ((-v) * 9) \div 10)
    ELSE 0

\* Variant: a bounce that keeps the whole speed.
BounceFull(v) == -v

\* -velocity.y * 0.7f, for the falling velocity v > 0.
Bounce(v) == -((v * 7) \div 10)

--------------------------------------------------------------------------
(* State.                                                                  *)

VARIABLES
    player,          \* player.getPosition(): [x, y]
    velocity,        \* velocity: [x, y]
    isOnGround,
    levelCompleted,
    view,            \* view.getCenter(): [x, y]
    coinCount,
    coins,           \* the active coins, each by the position it was built at
    obstacles,       \* the five obstacles: shape, velocityX and limits
    windowOpen,      \* window.isOpen()
    pc,              \* where the loop stands
    polled,          \* events handed out in this iteration
    frames,          \* iterations completed
    script,          \* the recorded play being replayed, 0 in free play
    resetCalled,     \* history: the step just taken invoked resetGame
    resets,          \* history: resetGame was invoked in this iteration
    event,           \* history: the event the step just taken handled
    jumped,          \* history: a jump was performed in this iteration
    hit,             \* history: the obstacle loop called resetGame in this iteration
    pre,             \* history: the game state at the start of the step just taken
    began            \* history: the game state at the start of this iteration

vars == << player, velocity, isOnGround, levelCompleted, view, coinCount,
           coins, obstacles, windowOpen, pc, polled, frames, script,
           resetCalled, resets, event, jumped, hit, pre, began >>

\* The objects the loop body works on, as one record.
Game ==
    [player |-> player, velocity |-> velocity, isOnGround |-> isOnGround,
     levelCompleted |-> levelCompleted, view |-> view, coinCount |-> coinCount,
     coins |-> coins, obstacles |-> obstacles, resetCalled |-> FALSE]

\* The loop body's objects after a step that leaves them as the record s.
Becomes(s) ==
    /\ player' = s.player
    /\ velocity' = s.velocity
    /\ isOnGround' = s.isOnGround
    /\ levelCompleted' = s.levelCompleted
    /\ view' = s.view
    /\ coinCount' = s.coinCount
    /\ coins' = s.coins
    /\ obstacles' = s.obstacles
    /\ resetCalled' = s.resetCalled
    /\ resets' = (resets \/ s.resetCalled)
    /\ pre' = Game
    /\ began' = began

--------------------------------------------------------------------------
(* resetGame, bounce.cpp lines 115-126.                                    *)

\* Variant: resetGame that also puts the obstacles back where they started.
ResetGameWithObstacles(s) ==
    [s EXCEPT !.player = Spawn,
              !.velocity = [x |-> 0, y |-> 0],
              !.isOnGround = FALSE,
              !.levelCompleted = FALSE,
              !.coinCount = 0,
              !.view = Spawn,
              !.coins = defaultCoinPositions,
              !.obstacles = initialObstacles]

\* Variant: resetGame that leaves the player where it is.
ResetGameInPlace(s) ==
    [s EXCEPT !.velocity = [x |-> 0, y |-> 0],
              !.isOnGround = FALSE,
              !.levelCompleted = FALSE,
              !.coinCount = 0,
              !.view = Spawn,
              !.coins = defaultCoinPositions]

\* Variant: resetGame without coins.clear(), the default coins appended.
ResetGameKeepingCoins(s) ==
    [s EXCEPT !.player = Spawn,
              !.velocity = [x |-> 0, y |-> 0],
              !.isOnGround = FALSE,
              !.levelCompleted = FALSE,
              !.coinCount = 0,
              !.view = Spawn,
              !.coins = s.coins \o defaultCoinPositions]

ResetGame(s) ==
    [s EXCEPT !.player = Spawn,
              !.velocity = [x |-> 0, y |-> 0],
              !.isOnGround = FALSE,
              !.levelCompleted = FALSE,
              !.coinCount = 0,
              !.view = Spawn,
              !.coins = defaultCoinPositions]

\* A call of resetGame, recorded in the history flag.
CallReset(s) == [ResetGame(s) EXCEPT !.resetCalled = TRUE]

--------------------------------------------------------------------------
(* The steps of the loop body, bounce.cpp lines 244-401.                   *)

\* Variant: a jump that leaves isOnGround as it was.
InputStepKeepsGround(s, left, right, up) ==
    LET vx == IF left THEN -MoveSpeed
              ELSE IF right THEN MoveSpeed
              ELSE Friction(s.velocity.x)
        jump == up /\ s.isOnGround
        vy == (IF jump THEN JumpStrength ELSE s.velocity.y) + Gravity
    IN [s EXCEPT !.velocity = [x |-> vx, y |-> vy],
                 !.player = [x |-> s.player.x + vx, y |-> s.player.y + vy]]

\* Lines 250-274: keys, jump, gravity, player.move(velocity).
InputStep(s, left, right, up) ==
    LET vx == IF left THEN -MoveSpeed
              ELSE IF right THEN MoveSpeed
              ELSE Friction(s.velocity.x)
        jump == up /\ s.isOnGround
        vy == (IF jump THEN JumpStrength ELSE s.velocity.y) + Gravity
    IN [s EXCEPT !.velocity = [x |-> vx, y |-> vy],
                 !.isOnGround = IF jump THEN FALSE ELSE s.isOnGround,
                 !.player = [x |-> s.player.x + vx, y |-> s.player.y + vy]]

\* Lines 280-290, and again lines 297-305 for the floor.
platformCollision(s, platform) ==
    IF /\ Intersects(PlayerBounds(s.player), platform)
       /\ s.velocity.y > 0
    THEN [s EXCEPT !.player.y = platform.top - PlayerRadius * 2,
                   !.velocity.y = Bounce(s.velocity.y),
                   !.isOnGround = TRUE]
    ELSE s

\* Line 291: std::for_each over platforms, from index i on.
RECURSIVE PlatformsFrom(_, _)
PlatformsFrom(s, i) ==
    IF i > Len(platforms) THEN s
    ELSE PlatformsFrom(platformCollision(s, platforms[i]), i + 1)

\* Variant: the floor checked before the platforms.
PlatformStepFloorFirst(s) == PlatformsFrom(platformCollision(s, floor), 1)

\* Lines 280-305: the platforms in list order, then the floor.
PlatformStep(s) == platformCollision(PlatformsFrom(s, 1), floor)

\* Variant: a wall contact that also stops the vertical movement.
wallCollisionStopsFall(s, wall) ==
    LET playerBounds == PlayerBounds(s.player)
        wallBounds == wall
    IN IF ~Intersects(playerBounds, wallBounds) THEN s
       ELSE IF /\ s.velocity.x > 0
               /\ playerBounds.left < wallBounds.left
       THEN [s EXCEPT !.player.x = wallBounds.left - playerBounds.width,
                      !.velocity = [x |-> 0, y |-> 0]]
       ELSE IF /\ s.velocity.x < 0
               /\ playerBounds.left + playerBounds.width
                      > wallBounds.left + wallBounds.width
       THEN [s EXCEPT !.player.x = wallBounds.left + wallBounds.width,
                      !.velocity = [x |-> 0, y |-> 0]]
       ELSE s

\* Lines 311-330.
wallCollision(s, wall) ==
    LET playerBounds == PlayerBounds(s.player)
        wallBounds == wall
    IN IF ~Intersects(playerBounds, wallBounds) THEN s
       ELSE IF /\ s.velocity.x > 0
               /\ playerBounds.left + playerBounds.width > wallBounds.left
               /\ playerBounds.left < wallBounds.left
       THEN [s EXCEPT !.player.x = wallBounds.left - playerBounds.width,
                      !.velocity.x = 0]
       ELSE IF /\ s.velocity.x < 0
               /\ playerBounds.left < wallBounds.left + wallBounds.width
               /\ playerBounds.left + playerBounds.width
                      > wallBounds.left + wallBounds.width
       THEN [s EXCEPT !.player.x = wallBounds.left + wallBounds.width,
                      !.velocity.x = 0]
       ELSE s

\* Line 331: std::for_each over walls, from index i on.
RECURSIVE WallsFrom(_, _)
WallsFrom(s, i) ==
    IF i > Len(walls) THEN s
    ELSE WallsFrom(wallCollision(s, walls[i]), i + 1)

WallStep(s) == WallsFrom(s, 1)

\* Variant: an obstacle that moves on without turning at its limits.
MoveUnbounded(o) == [o EXCEPT !.left = o.left + o.velocityX]

\* Obstacle::move, lines 61-66.
Move(o) ==
    LET m == [o EXCEPT !.left = o.left + o.velocityX]
    IN IF m.left <= m.leftLimit \/ m.left + m.width >= m.rightLimit
       THEN [m EXCEPT !.velocityX = -m.velocityX]
       ELSE m

\* Variant: an obstacle that does not turn at a wall.
handleWallCollisionNone(o, wall) == o

\* Obstacle::handleWallCollision, lines 73-77.
handleWallCollision(o, wall) ==
    IF Intersects(ObstacleBounds(o), wall)
    THEN [o EXCEPT !.velocityX = -o.velocityX]
    ELSE o

\* Lines 343-345: the obstacle against every wall, from index w on.
RECURSIVE ObstacleWallsFrom(_, _)
ObstacleWallsFrom(o, w) ==
    IF w > Len(walls) THEN o
    ELSE ObstacleWallsFrom(handleWallCollision(o, walls[w]), w + 1)

\* Variant: an obstacle that moves through the player without a reset.
ObstacleBodyNoReset(s, i) ==
    [s EXCEPT !.obstacles[i] = ObstacleWallsFrom(Move(s.obstacles[i]), 1)]

\* Lines 340-354: one pass of the obstacle loop, for obstacle i.
ObstacleBody(s, i) ==
    LET o == ObstacleWallsFrom(Move(s.obstacles[i]), 1)
        moved == [s EXCEPT !.obstacles[i] = o]
    IN IF Intersects(PlayerBounds(moved.player), ObstacleBounds(o))
       THEN CallReset(moved)
       ELSE moved

\* Lines 338-355: the obstacle loop, from index i on.
RECURSIVE ObstaclesFrom(_, _)
ObstaclesFrom(s, i) ==
    IF i > Len(s.obstacles) THEN s
    ELSE ObstaclesFrom(ObstacleBody(s, i), i + 1)

ObstacleStep(s) == ObstaclesFrom(s, 1)

\* Variant: a coin collected only when the player's centre is inside its bounds.
isCollectedByCentre(coin, p) ==
    LET b == CoinBounds(coin)
        cx == p.x + PlayerRadius
        cy == p.y + PlayerRadius
    IN /\ b.left < cx /\ cx < b.left + b.width
       /\ b.top < cy /\ cy < b.top + b.height

\* Coin::isCollected, lines 99-101.
isCollected(coin, p) == Intersects(PlayerBounds(p), CoinBounds(coin))

\* Variant: a collected coin counted twice.
CoinStepDouble(s) ==
    LET kept == SelectSeq(s.coins, LAMBDA c : ~isCollected(c, s.player))
    IN [s EXCEPT !.coinCount = s.coinCount + 2 * (Len(s.coins) - Len(kept)),
                 !.coins = kept]

\* Variant: the coins counted but left in the collection.
CoinStepKeeping(s) ==
    LET kept == SelectSeq(s.coins, LAMBDA c : ~isCollected(c, s.player))
    IN [s EXCEPT !.coinCount = s.coinCount + (Len(s.coins) - Len(kept))]

\* Lines 361-368: remove_if with collectCoin, which counts every coin it removes.
CoinStep(s) ==
    LET kept == SelectSeq(s.coins, LAMBDA c : ~isCollected(c, s.player))
    IN [s EXCEPT !.coinCount = s.coinCount + (Len(s.coins) - Len(kept)),
                 !.coins = kept]

\* Variant: the goal check without the test of the coin collection.
GoalStepAnyCoins(s) ==
    IF Intersects(PlayerBounds(s.player), goal)
    THEN [s EXCEPT !.levelCompleted = TRUE]
    ELSE s

\* Lines 388-392.
GoalStep(s) ==
    IF Intersects(PlayerBounds(s.player), goal) /\ s.coins = << >>
    THEN [s EXCEPT !.levelCompleted = TRUE]
    ELSE s

\* Variant: the camera following the player also when the level is completed.
CameraStepAlways(s) ==
    [s EXCEPT !.view = [x |-> s.player.x + CameraOffset, y |-> Px(300)]]

\* Lines 397-399.
CameraStep(s) ==
    IF ~s.levelCompleted
    THEN [s EXCEPT !.view = [x |-> s.player.x + CameraOffset, y |-> Px(300)]]
    ELSE s

\* Variant: once the level is completed, a key press of any key restarts.
HandleEventAnyKey(s, e) ==
    IF \/ s.levelCompleted /\ e.type = "KeyPressed"
       \/ (s.levelCompleted \/ e.type = "KeyPressed") /\ e.code = "R"
    THEN CallReset(s)
    ELSE s

\* Lines 225-238: one polled event.  The key code of an event that is no key
\* event is the read of an inactive union member: either outcome.
HandleEvent(s, e) ==
    IF (s.levelCompleted \/ e.type = "KeyPressed") /\ e.code = "R"
    THEN CallReset(s)
    ELSE s

Events ==
    [type : {"Closed", "KeyPressed", "KeyReleased", "Other"}, code : {"R", "A"}]

\* No event: the step just taken polled none.
NoEvent == [type |-> "None", code |-> "A"]

--------------------------------------------------------------------------
(* The loop, bounce.cpp lines 216-430.                                     *)

\* The state main() has built when it enters the loop, lines 137-193.
Constructed ==
    [player |-> Spawn, velocity |-> [x |-> 0, y |-> 0], isOnGround |-> FALSE,
     levelCompleted |-> FALSE, view |-> Spawn, coinCount |-> 0,
     coins |-> defaultCoinPositions, obstacles |-> initialObstacles,
     resetCalled |-> FALSE]

\* sf::Keyboard::isKeyPressed for Left, Right and Up during one iteration.
Keys(left, right, up) == [left |-> left, right |-> right, up |-> up]
NoKey == Keys(FALSE, FALSE, FALSE)
KeyLeft == Keys(TRUE, FALSE, FALSE)
KeyRight == Keys(FALSE, TRUE, FALSE)
KeyRightUp == Keys(FALSE, TRUE, TRUE)

--------------------------------------------------------------------------
(* Recorded plays.  A script lists the keys held, each entry up to and     *)
(* including the iteration it names; SpecReplay plays the scripts from the *)
(* constructed state, no event arriving.                                   *)

\* The iterations of a script, and the keys held during its iteration f.
Length(runs) == runs[Len(runs)][2]
KeysAt(runs, f) ==
    LET i == CHOOSE k \in 1..Len(runs) :
                 /\ f <= runs[k][2]
                 /\ k = 1 \/ runs[k - 1][2] < f
    IN runs[i][1]

\* A game state in play: the player, the coins still active (by their index
\* in defaultCoinPositions), the camera, and each obstacle's x and velocityX.
Start(px, py, vx, vy, ground, remaining, camx, obs) ==
    [player |-> [x |-> px, y |-> py], velocity |-> [x |-> vx, y |-> vy],
     isOnGround |-> ground, levelCompleted |-> FALSE,
     view |-> [x |-> camx, y |-> Px(300)],
     coinCount |-> Len(defaultCoinPositions) - Len(remaining),
     coins |-> [k \in 1..Len(remaining) |-> defaultCoinPositions[remaining[k]]],
     obstacles |-> [k \in 1..Len(initialObstacles) |->
                       [initialObstacles[k] EXCEPT !.left = obs[k][1],
                                                   !.velocityX = obs[k][2]]],
     resetCalled |-> FALSE]

\* A play that collects the three coins in turn and reaches the goal.
WinScript ==
    << <<KeyRight, 24>>, <<KeyLeft, 25>>, <<NoKey, 29>>, <<KeyRight, 49>>,
       <<KeyRightUp, 50>>, <<KeyRight, 154>>, <<KeyRightUp, 155>>, <<KeyRight, 210>>,
       <<KeyRightUp, 211>>, <<KeyRight, 247>>, <<KeyLeft, 248>>, <<KeyRight, 272>>,
       <<KeyRightUp, 273>>, <<KeyRight, 381>>, <<KeyRightUp, 382>>, <<KeyRight, 445>>,
       <<KeyRightUp, 446>>, <<KeyRight, 511>>, <<KeyRightUp, 512>>, <<KeyRight, 631>>,
       <<KeyRightUp, 632>>, <<KeyRight, 657>>, <<KeyRightUp, 658>>, <<KeyRight, 699>>,
       <<KeyLeft, 700>>, <<NoKey, 704>>, <<KeyLeft, 705>>, <<KeyRight, 742>>,
       <<KeyRightUp, 743>>, <<KeyRight, 837>>, <<KeyRightUp, 838>>, <<KeyRight, 868>> >>

\* A play that falls beside the first platform and slips under it at floor level.
UnderPlatformScript ==
    << <<KeyLeft, 19>>, <<KeyRight, 20>>, <<KeyLeft, 21>>, <<KeyRight, 22>>,
       <<KeyLeft, 23>>, <<KeyRight, 24>>, <<KeyLeft, 25>>, <<KeyRight, 26>>,
       <<KeyLeft, 27>>, <<KeyRight, 28>>, <<KeyLeft, 31>> >>

\* A play that walks off the second platform into the first wall.
WallScript ==
    << <<KeyRight, 33>> >>

\* A play that comes down onto the second wall from above.
OntoWallScript ==
    << <<KeyRight, 22>>, <<KeyLeft, 23>>, <<NoKey, 25>>, <<KeyRight, 35>>,
       <<KeyRightUp, 36>>, <<KeyRight, 90>>, <<KeyRightUp, 91>>, <<KeyRight, 199>>,
       <<KeyRightUp, 200>>, <<KeyRight, 239>>, <<KeyLeft, 240>> >>

\* A play that takes the first coin and runs into an obstacle.
ObstacleScript ==
    << <<KeyRight, 24>>, <<KeyLeft, 25>>, <<NoKey, 29>>, <<KeyRight, 31>>,
       <<KeyRightUp, 32>>, <<KeyRight, 142>> >>

\* A play that reaches the goal with every coin left behind.
NoCoinScript ==
    << <<KeyRight, 22>>, <<KeyLeft, 23>>, <<NoKey, 25>>, <<KeyRight, 35>>,
       <<KeyRightUp, 36>>, <<KeyRight, 85>>, <<KeyRightUp, 86>>, <<KeyRight, 162>>,
       <<KeyRightUp, 163>>, <<KeyRight, 243>>, <<KeyLeft, 244>>, <<KeyRight, 295>>,
       <<KeyRightUp, 296>>, <<KeyRight, 451>>, <<KeyRightUp, 452>>, <<KeyRight, 511>>,
       <<KeyRightUp, 512>>, <<KeyRight, 565>>, <<KeyRightUp, 566>>, <<KeyRight, 643>>,
       <<KeyRightUp, 644>>, <<KeyRight, 733>>, <<KeyRightUp, 734>>, <<KeyRight, 758>>,
       <<KeyRightUp, 759>>, <<KeyRight, 843>>, <<KeyRightUp, 844>>, <<KeyRight, 853>> >>

\* A play that completes the level in the frame in which the fourth obstacle turns at the third wall.
FreezeScript ==
    << <<KeyRight, 24>>, <<KeyLeft, 25>>, <<NoKey, 29>>, <<KeyRight, 49>>,
       <<KeyRightUp, 50>>, <<KeyRight, 154>>, <<KeyRightUp, 155>>, <<KeyRight, 210>>,
       <<KeyRightUp, 211>>, <<KeyRight, 247>>, <<KeyLeft, 248>>, <<KeyRight, 272>>,
       <<KeyRightUp, 273>>, <<KeyRight, 381>>, <<KeyRightUp, 382>>, <<KeyRight, 445>>,
       <<KeyRightUp, 446>>, <<KeyRight, 511>>, <<KeyRightUp, 512>>, <<KeyRight, 631>>,
       <<KeyRightUp, 632>>, <<KeyRight, 657>>, <<KeyRightUp, 658>>, <<KeyRight, 699>>,
       <<KeyLeft, 700>>, <<NoKey, 704>>, <<KeyLeft, 705>>, <<KeyRight, 742>>,
       <<KeyRightUp, 743>>, <<KeyRight, 817>>, <<KeyLeft, 819>>, <<KeyRight, 821>>,
       <<KeyLeft, 823>>, <<KeyRight, 824>>, <<KeyLeft, 825>>, <<KeyRight, 827>>,
       <<KeyLeft, 829>>, <<KeyRight, 845>>, <<KeyRightUp, 846>>, <<KeyRight, 881>>,
       <<KeyLeft, 882>>, <<KeyRight, 883>>, <<KeyLeft, 884>>, <<NoKey, 885>>,
       <<KeyRight, 887>>, <<NoKey, 889>> >>

Scripts == << WinScript, UnderPlatformScript, WallScript, OntoWallScript, ObstacleScript, NoCoinScript, FreezeScript >>

Starts ==
    << [script |-> 1, frame |-> 24, state |->
            Start(5200, 4500, 50, 120, FALSE, << 1, 2, 3 >>, 7200,
                  << <<8480, 20>>, <<15480, 20>>, <<23480, 20>>, <<32480, 20>>, <<40480, 20>> >>)],
       [script |-> 1, frame |-> 49, state |->
            Start(5997, 3630, 50, -1, TRUE, << 2, 3 >>, 7997,
                  << <<8980, 20>>, <<15060, -20>>, <<23980, 20>>, <<32980, 20>>, <<40980, 20>> >>)],
       [script |-> 1, frame |-> 161, state |->
            Start(11597, 4205, 50, -85, FALSE, << 2, 3 >>, 13597,
                  << <<9780, -20>>, <<15180, 20>>, <<22780, -20>>, <<31780, -20>>, <<39780, -20>> >>)],
       [script |-> 1, frame |-> 247, state |->
            Start(15897, 4080, 50, 65, FALSE, << 3 >>, 17897,
                  << <<8060, -20>>, <<14140, -20>>, <<22940, 20>>, <<32300, 20>>, <<39940, 20>> >>)],
       [script |-> 1, frame |-> 316, state |->
            Start(19600, 4366, 50, 100, FALSE, << 3 >>, 21600,
                  << <<7320, 20>>, <<15240, 20>>, <<24320, 20>>, <<33320, -20>>, <<41320, 20>> >>)],
       [script |-> 1, frame |-> 867, state |->
            Start(46597, 2586, 50, 30, FALSE, << >>, 48597,
                  << <<9660, -20>>, <<14100, 20>>, <<23660, -20>>, <<31580, -20>>, <<40660, -20>> >>)],
       [script |-> 2, frame |-> 30, state |->
            Start(3000, 5325, -50, 150, FALSE, << 1, 2, 3 >>, 5000,
                  << <<8600, 20>>, <<15440, -20>>, <<23600, 20>>, <<32600, 20>>, <<40600, 20>> >>)],
       [script |-> 3, frame |-> 32, state |->
            Start(5600, 5297, 50, -103, TRUE, << 1, 2, 3 >>, 7600,
                  << <<8640, 20>>, <<15400, -20>>, <<23640, 20>>, <<32640, 20>>, <<40640, 20>> >>)],
       [script |-> 4, frame |-> 239, state |->
            Start(15665, 4089, 50, 80, FALSE, << 1, 3 >>, 17665,
                  << <<8220, -20>>, <<14300, -20>>, <<22780, 20>>, <<32140, 20>>, <<39780, 20>> >>)],
       [script |-> 5, frame |-> 141, state |->
            Start(10597, 4840, 50, 60, TRUE, << 2, 3 >>, 12597,
                  << <<10180, -20>>, <<14780, 20>>, <<23180, -20>>, <<32180, -20>>, <<40180, -20>> >>)],
       [script |-> 6, frame |-> 852, state |->
            Start(46600, 2735, 50, -75, FALSE, << 1, 2, 3 >>, 48600,
                  << <<9960, -20>>, <<14200, -20>>, <<23960, -20>>, <<31880, -20>>, <<40960, -20>> >>)],
       [script |-> 7, frame |-> 886, state |->
            Start(46552, 2569, 50, 85, FALSE, << >>, 48552,
                  << <<9280, -20>>, <<14480, 20>>, <<23280, -20>>, <<31200, -20>>, <<40280, -20>> >>)] >>

\* The states free play starts from: the constructed state, and the states
\* of the recorded plays Starts lists (the state at the start of iteration
\* frame + 1 of the script; StartsAreReplayed checks each against the replay).
StartStates == {Constructed} \cup {Starts[k].state : k \in 1..Len(Starts)}

Init ==
    /\ \E s \in StartStates :
          /\ player = s.player
          /\ velocity = s.velocity
          /\ isOnGround = s.isOnGround
          /\ levelCompleted = s.levelCompleted
          /\ view = s.view
          /\ coinCount = s.coinCount
          /\ coins = s.coins
          /\ obstacles = s.obstacles
          /\ pre = s
          /\ began = s
    /\ resetCalled = FALSE
    /\ resets = FALSE
    /\ event = NoEvent
    /\ jumped = FALSE
    /\ hit = FALSE
    /\ windowOpen = TRUE
    /\ pc = "poll"
    /\ polled = 0
    /\ frames = 0
    /\ script = 0

\* Lines 220-239: window.pollEvent hands out one event.
PollEvent(e) ==
    /\ pc = "poll"
    /\ script = 0
    /\ windowOpen
    /\ polled < MaxEvents
    /\ Becomes(HandleEvent(Game, e))
    /\ event' = e
    /\ windowOpen' = (e.type # "Closed")
    /\ polled' = polled + 1
    /\ UNCHANGED << pc, frames, script, jumped, hit >>

\* Line 220: window.pollEvent returns false.
EndPoll ==
    /\ pc = "poll"
    /\ Becomes(Game)
    /\ pc' = "update"
    /\ polled' = 0
    /\ event' = NoEvent
    /\ UNCHANGED << windowOpen, frames, script, jumped, hit >>

\* Variant: keys and movement even when the level is completed.
UpdateWhileCompleted(keys) ==
    /\ pc = "update"
    /\ Becomes(InputStep(Game, keys.left, keys.right, keys.up))
    /\ jumped' = (keys.up /\ isOnGround)
    /\ pc' = "platforms"
    /\ event' = NoEvent
    /\ UNCHANGED << windowOpen, polled, frames, script, hit >>

\* Lines 244-274: nothing when the level is completed, else keys and movement.
UpdateWith(keys) ==
    /\ pc = "update"
    /\ IF levelCompleted
       THEN Becomes(Game) /\ pc' = "draw" /\ jumped' = jumped
       ELSE /\ Becomes(InputStep(Game, keys.left, keys.right, keys.up))
            /\ jumped' = (keys.up /\ isOnGround)
            /\ pc' = "platforms"
    /\ event' = NoEvent
    /\ UNCHANGED << windowOpen, polled, frames, script, hit >>

Update(left, right, up) == script = 0 /\ UpdateWith(Keys(left, right, up))

\* One block of the loop body: from the position at to the position to.
Block(at, to, s) ==
    /\ pc = at
    /\ Becomes(s)
    /\ pc' = to
    /\ event' = NoEvent
    /\ hit' = (hit \/ (at = "obstacles" /\ s.resetCalled))
    /\ UNCHANGED << windowOpen, polled, frames, script, jumped >>

Platforms == Block("platforms", "walls", PlatformStep(Game))
Walls == Block("walls", "obstacles", WallStep(Game))
Obstacles == Block("obstacles", "coins", ObstacleStep(Game))
Coins == Block("coins", "goal", CoinStep(Game))
Goal == Block("goal", "camera", GoalStep(Game))
Camera == Block("camera", "draw", CameraStep(Game))

\* The iterations explored: MaxFrames of free play, a script's length in replay.
FrameLimit == IF script = 0 THEN MaxFrames ELSE Length(Scripts[script])

\* Lines 406-429 and back to line 216, the window still open.
Draw ==
    /\ pc = "draw"
    /\ windowOpen
    /\ frames + 1 < FrameLimit
    /\ pc' = "poll"
    /\ frames' = frames + 1
    /\ resetCalled' = FALSE
    /\ resets' = FALSE
    /\ jumped' = FALSE
    /\ hit' = FALSE
    /\ pre' = Game
    /\ began' = Game
    /\ UNCHANGED << player, velocity, isOnGround, levelCompleted, view, coinCount,
                    coins, obstacles, windowOpen, polled, script, event >>

\* Line 216 after window.close(): the loop ends.
Exit ==
    /\ pc = "draw"
    /\ ~windowOpen
    /\ pc' = "done"
    /\ UNCHANGED << player, velocity, isOnGround, levelCompleted, view, coinCount,
                    coins, obstacles, windowOpen, polled, frames, script,
                    resetCalled, resets, event, jumped, hit, pre, began >>

Next ==
    \/ \E e \in Events : PollEvent(e)
    \/ EndPoll
    \/ \E left \in BOOLEAN, right \in BOOLEAN, up \in BOOLEAN : Update(left, right, up)
    \/ Platforms
    \/ Walls
    \/ Obstacles
    \/ Coins
    \/ Goal
    \/ Camera
    \/ Draw
    \/ Exit

\* Free play: MaxFrames iterations from every start state, under every input.
Spec == Init /\ [][Next]_vars

--------------------------------------------------------------------------
(* Replay of the recorded plays from the constructed state.                *)

InitReplay ==
    /\ player = Constructed.player
    /\ velocity = Constructed.velocity
    /\ isOnGround = Constructed.isOnGround
    /\ levelCompleted = Constructed.levelCompleted
    /\ view = Constructed.view
    /\ coinCount = Constructed.coinCount
    /\ coins = Constructed.coins
    /\ obstacles = Constructed.obstacles
    /\ pre = Constructed
    /\ began = Constructed
    /\ resetCalled = FALSE
    /\ resets = FALSE
    /\ event = NoEvent
    /\ jumped = FALSE
    /\ hit = FALSE
    /\ windowOpen = TRUE
    /\ pc = "poll"
    /\ polled = 0
    /\ frames = 0
    /\ script \in 1..Len(Scripts)

\* Lines 244-274 with the keys the script holds in this iteration.
UpdateReplay == script > 0 /\ UpdateWith(KeysAt(Scripts[script], frames + 1))

NextReplay ==
    \/ EndPoll
    \/ UpdateReplay
    \/ Platforms
    \/ Walls
    \/ Obstacles
    \/ Coins
    \/ Goal
    \/ Camera
    \/ Draw

SpecReplay == InitReplay /\ [][NextReplay]_vars

\* Every start state of free play is the state the replay of its script is in
\* at the start of the iteration it names.
StartsAreReplayed ==
    \A k \in 1..Len(Starts) :
        (script = Starts[k].script /\ frames = Starts[k].frame /\ pc = "poll")
            => Game = Starts[k].state

--------------------------------------------------------------------------
(* Properties.  A history variable tells what the step just taken did:    *)
(* pre is the game at its start, pc the position it led to.               *)

\* C1: the level is completed only while the collection of active coins is
\* empty: the goal check never completes the level with a coin left.
CompletedOnlyWithoutCoins == levelCompleted => coins = << >>

\* The goal check has just completed the level.
GoalCheckCompleted == pc = "camera" /\ levelCompleted /\ ~pre.levelCompleted

\* C2: after resetGame the player is at (400, 300), the velocity is (0, 0),
\* isOnGround and levelCompleted are false, coinCount is 0, the view is centred
\* on (400, 300) and the coins are the default positions, same count and same
\* order; a second call in succession gives the same state as one call.
IsResetState(s) ==
    /\ s.player = [x |-> Px(400), y |-> Px(300)]
    /\ s.velocity = [x |-> 0, y |-> 0]
    /\ ~s.isOnGround
    /\ ~s.levelCompleted
    /\ s.coinCount = 0
    /\ s.view = [x |-> Px(400), y |-> Px(300)]
    /\ Len(s.coins) = Len(defaultCoinPositions)
    /\ \A k \in 1..Len(s.coins) : s.coins[k] = defaultCoinPositions[k]

ResetRestoresStart ==
    /\ resetCalled => IsResetState(Game)
    /\ IsResetState(ResetGame(Game))
    /\ ResetGame(ResetGame(Game)) = ResetGame(Game)

\* resetGame has just been called in a game with coins collected, the player
\* grounded and away from the start, the camera moved.
ResetAfterPlay ==
    /\ resetCalled
    /\ pre.coinCount > 0
    /\ Len(pre.coins) < Len(defaultCoinPositions)
    /\ pre.isOnGround
    /\ pre.player # Spawn
    /\ pre.view # Spawn

\* C3: unless resetGame is called, coinCount does not decrease; the coin step
\* removes every coin whose bounds intersect the player's, once, adds one to
\* coinCount for each, and leaves the other coins in their order.
Touched(c) == Intersects(PlayerBounds(pre.player), CoinBounds(c))

CoinsCollectedOnce ==
    /\ ~resetCalled => coinCount >= pre.coinCount
    /\ pc = "goal" =>
          /\ coins = SelectSeq(pre.coins, LAMBDA c : ~Touched(c))
          /\ coinCount = pre.coinCount
                + Cardinality({k \in 1..Len(pre.coins) : Touched(pre.coins[k])})
          /\ \A k \in 1..Len(coins) : ~Touched(coins[k])

\* The coin step has just removed a coin.
CoinJustCollected == pc = "goal" /\ Len(coins) < Len(pre.coins)

\* C4: an obstacle whose move takes its bounds to its left or its right limit
\* has its velocity sign flipped in that frame, and at every moment its extent
\* lies within [leftLimit - 2, rightLimit + 2], one step's displacement.
AtLimit(o) ==
    \/ o.left + o.velocityX <= o.leftLimit
    \/ o.left + o.velocityX + o.width >= o.rightLimit

PatrolKeepsLimits ==
    /\ \A i \in 1..Len(obstacles) :
          /\ obstacles[i].leftLimit - Px(2) <= obstacles[i].left
          /\ obstacles[i].left + obstacles[i].width
                <= obstacles[i].rightLimit + Px(2)
    /\ pc = "coins" =>
          \A i \in 1..Len(obstacles) :
             AtLimit(pre.obstacles[i]) =>
                /\ obstacles[i].velocityX = -pre.obstacles[i].velocityX
                /\ obstacles[i].left
                      = pre.obstacles[i].left + pre.obstacles[i].velocityX

\* An obstacle moving left has just turned at its left limit.
TurnedAtLeftLimit ==
    /\ pc = "coins"
    /\ \E i \in 1..Len(obstacles) :
          /\ pre.obstacles[i].velocityX < 0
          /\ obstacles[i].left <= obstacles[i].leftLimit
          /\ obstacles[i].velocityX > 0

\* The platforms in the order the platform step checks them, the floor last,
\* and those the player's bounds intersect before the step while falling.
Surfaces == platforms \o << floor >>

Contacts ==
    IF pre.velocity.y > 0
    THEN {k \in 1..Len(Surfaces) :
             Intersects(PlayerBounds(pre.player), Surfaces[k])}
    ELSE {}

FirstContact == CHOOSE k \in Contacts : \A j \in Contacts : k <= j

LastContact == CHOOSE k \in Contacts : \A j \in Contacts : k >= j

\* C5 as stated: after the platform step the player rests on every platform
\* or floor it intersected while falling, at that platform's top - 40, with
\* vy = -0.7 * the vy before the step and isOnGround true.
LandsOnEveryContact ==
    pc = "walls" =>
       \A k \in Contacts :
          /\ player.y = Surfaces[k].top - Px(40)
          /\ velocity.y = -((pre.velocity.y * 7) \div 10)
          /\ isOnGround

\* C5 amended: after the platform step the player rests on the first, in
\* checking order, of the platforms or floor it intersected while falling, at
\* that platform's top - 40, with vy = -0.7 * the vy before the step and
\* isOnGround true.
LandsOnFirstContact ==
    pc = "walls" /\ Contacts # {} =>
       /\ player.y = Surfaces[FirstContact].top - Px(40)
       /\ player.x = pre.player.x
       /\ velocity.y = -((pre.velocity.y * 7) \div 10)
       /\ velocity.y <= 0
       /\ isOnGround

\* The platform step has just resolved a fall onto a platform.
LandedOnPlatform ==
    /\ pc = "walls"
    /\ Contacts # {}
    /\ FirstContact <= Len(platforms)
    /\ ~pre.isOnGround
    /\ isOnGround

\* C10 as stated: when the player intersects several platforms in one frame,
\* the last intersecting one in checking order determines the final vertical
\* position and velocity.
LastContactWins ==
    pc = "walls" /\ Cardinality(Contacts) >= 2 =>
       [Game EXCEPT !.resetCalled = FALSE]
          = platformCollision(pre, Surfaces[LastContact])

\* C10 amended: when the player intersects several platforms in one frame,
\* the first intersecting one in checking order determines the final vertical
\* position and velocity; the later ones change nothing.
FirstContactWins ==
    pc = "walls" /\ Cardinality(Contacts) >= 2 =>
       [Game EXCEPT !.resetCalled = FALSE]
          = platformCollision(pre, Surfaces[FirstContact])

\* The platform step has just run with the player on a platform and the floor.
SeveralContacts == pc = "walls" /\ Cardinality(Contacts) >= 2

\* The game s with the player put at position p.
PlacedAt(s, p) == [s EXCEPT !.player = p]

\* C6: from the constructed state with the three default coins, the player
\* placed at each coin's position in turn and the coin step run each time
\* gives coinCount 3 and no active coin, and the player then placed at the
\* goal's position and the goal check run gives levelCompleted; the same
\* holds of the recorded play that moves the player there key by key.
EndToEnd ==
    /\ LET s1 == CoinStep(PlacedAt(Constructed, defaultCoinPositions[1]))
           s2 == CoinStep(PlacedAt(s1, defaultCoinPositions[2]))
           s3 == CoinStep(PlacedAt(s2, defaultCoinPositions[3]))
           s4 == GoalStep(PlacedAt(s3, [x |-> goal.left, y |-> goal.top]))
       IN /\ s1.coinCount = 1 /\ s2.coinCount = 2 /\ s3.coinCount = 3
          /\ s3.coins = << >>
          /\ ~s3.levelCompleted
          /\ s4.levelCompleted
    /\ script = 1 =>
          /\ coins = SubSeq(defaultCoinPositions, coinCount + 1,
                            Len(defaultCoinPositions))
          /\ levelCompleted => coinCount = 3
          /\ frames + 1 = Length(WinScript) /\ pc = "draw" =>
                levelCompleted /\ coinCount = 3 /\ coins = << >>

\* The recorded play has collected the three coins and completed the level.
PlayCompleted ==
    /\ script = 1
    /\ pc = "draw"
    /\ levelCompleted
    /\ coinCount = 3
    /\ coins = << >>

\* C7 as stated: after the wall step of every frame the player's bounds
\* intersect no wall's bounds.
OutsideWallsAfterWallStep ==
    pc = "obstacles" =>
       \A w \in 1..Len(walls) : ~Intersects(PlayerBounds(player), walls[w])

\* C8: in an iteration that starts with the level completed and calls no
\* resetGame, no physics or collision step runs: player, velocity, isOnGround,
\* coinCount, coins, obstacles and view stay as they were and levelCompleted
\* stays true.
CompletedIsTerminal ==
    began.levelCompleted /\ ~resets =>
       /\ Game = began
       /\ levelCompleted
       /\ pc \in {"poll", "update", "draw", "done"}

\* An iteration that started with the level completed has reached its end
\* without a reset.
CompletedIterationDone ==
    /\ pc = "draw"
    /\ began.levelCompleted
    /\ ~resets
    /\ frames >= 1

\* C9 as stated: while the level is completed a key press of any key calls
\* resetGame, which leaves the level not completed and isOnGround false;
\* while it is not completed a key press calls resetGame exactly when the
\* key is R.
AnyKeyRestartsCompleted ==
    pc = "poll" /\ event.type = "KeyPressed" =>
       IF pre.levelCompleted
       THEN resetCalled /\ ~levelCompleted /\ ~isOnGround
       ELSE resetCalled <=> event.code = "R"

\* C9 amended: completed or not, a key press calls resetGame exactly when
\* the key is R, and the call leaves the level not completed and isOnGround
\* false.
OnlyKeyRRestarts ==
    pc = "poll" /\ event.type = "KeyPressed" =>
       /\ resetCalled <=> event.code = "R"
       /\ resetCalled => ~levelCompleted /\ ~isOnGround

\* A key other than R has just been pressed with the level completed.
OtherKeyWhileCompleted ==
    /\ pc = "poll"
    /\ event = [type |-> "KeyPressed", code |-> "A"]
    /\ pre.levelCompleted
    /\ levelCompleted

\* C11: isOnGround goes from false to true only in the platform step, the
\* player having intersected a platform or the floor while falling; it goes
\* from true to false only by a jump (the Up key with isOnGround true, which
\* sets velocity.y to -12 before gravity) or by resetGame; and at the end of
\* an iteration in which a jump was performed isOnGround is false.
OnGroundTransitions ==
    /\ ~pre.isOnGround /\ isOnGround => pc = "walls" /\ Contacts # {}
    /\ pre.isOnGround /\ ~isOnGround =>
          \/ resetCalled
          \/ /\ pc = "platforms"
             /\ jumped
             /\ velocity.y = Px(1) \div 2 - Px(12)
    /\ jumped /\ pc # "poll" /\ pc # "update" => ~isOnGround
    /\ pc = "draw" /\ began.isOnGround /\ ~isOnGround => jumped \/ resets

\* An iteration in which the grounded player jumped has reached its end.
JumpedThisIteration ==
    /\ pc = "draw"
    /\ jumped
    /\ began.isOnGround
    /\ ~resets
    /\ ~isOnGround

\* C12: when, after an obstacle's move, the player's bounds intersect that
\* obstacle's bounds, resetGame is called, and from there to the end of the
\* iteration the player is at (400, 300) with velocity (0, 0), isOnGround and
\* levelCompleted false, coinCount 0 and the coins the default positions.
ObstacleHitResets ==
    /\ pc = "coins" =>
          ((\E i \in 1..Len(obstacles) :
               Intersects(PlayerBounds(pre.player), ObstacleBounds(obstacles[i])))
             => resetCalled /\ hit)
    /\ hit =>
          /\ pc \in {"coins", "goal", "camera", "draw", "done"}
          /\ player = [x |-> Px(400), y |-> Px(300)]
          /\ velocity = [x |-> 0, y |-> 0]
          /\ ~isOnGround
          /\ ~levelCompleted
          /\ coinCount = 0
          /\ coins = defaultCoinPositions

\* An iteration in which an obstacle hit the player, who had collected a
\* coin, has reached its end.
HitIterationDone ==
    /\ pc = "draw"
    /\ hit
    /\ began.coinCount > 0
    /\ began.player # Spawn

\* The walls the player's bounds intersect before the wall step.
WallContacts ==
    {w \in 1..Len(walls) : Intersects(PlayerBounds(pre.player), walls[w])}

\* C13: after the wall step, for each wall the player's bounds intersected:
\* with velocity.x > 0 and the player's left edge left of the wall's, x is
\* the wall's left edge - the player's width and velocity.x is 0; with
\* velocity.x < 0 and the player's right edge right of the wall's, x is the
\* wall's right edge and velocity.x is 0; and in every case the player's y,
\* velocity.y and isOnGround are as before the step.
WallStepResolves ==
    pc = "obstacles" =>
       /\ \A w \in WallContacts :
             /\ pre.velocity.x > 0 /\ pre.player.x < walls[w].left =>
                   /\ player.x = walls[w].left - Px(40)
                   /\ velocity.x = 0
             /\ /\ pre.velocity.x < 0
                /\ pre.player.x + Px(40) > walls[w].left + walls[w].width
                =>
                   /\ player.x = walls[w].left + walls[w].width
                   /\ velocity.x = 0
       /\ player.y = pre.player.y
       /\ velocity.y = pre.velocity.y
       /\ isOnGround = pre.isOnGround

\* The wall step has just pushed the player, moving right while airborne,
\* back to the left of a wall.
PushedOutOfWall ==
    /\ pc = "obstacles"
    /\ WallContacts # {}
    /\ pre.velocity.x > 0
    /\ velocity.x = 0
    /\ player.x < pre.player.x
    /\ velocity.y # 0

\* The walls the bounds of obstacle o intersect.
WallsTouching(o) ==
    {w \in 1..Len(walls) : Intersects(ObstacleBounds(o), walls[w])}

\* The velocity of every obstacle after the obstacle loop: the velocity it
\* had, negated once at a limit and once for each wall its moved bounds
\* intersect.
NegatedForEachWall ==
    pc = "coins" =>
       \A i \in 1..Len(obstacles) :
          LET turns == (IF AtLimit(pre.obstacles[i]) THEN 1 ELSE 0)
                         + Cardinality(WallsTouching(obstacles[i]))
          IN obstacles[i].velocityX =
                IF turns % 2 = 1 THEN -pre.obstacles[i].velocityX
                ELSE pre.obstacles[i].velocityX

\* No obstacle lies entirely beyond a wall, on the side opposite to the one
\* it was constructed on.
NoObstacleBeyondWall ==
    \A i \in 1..Len(obstacles) : \A w \in 1..Len(walls) :
       LET o == obstacles[i]
           o0 == initialObstacles[i]
           wall == walls[w]
       IN /\ o0.left + o0.width <= wall.left => o.left < wall.left + wall.width
          /\ o0.left >= wall.left + wall.width => o.left + o.width > wall.left

\* C14 as stated: an obstacle whose moved bounds intersect a wall has its
\* velocity negated for that wall; no obstacle intersects a wall at the end
\* of two consecutive frames; no obstacle is ever entirely on the far side of
\* a wall from where it started.
ObstaclesLeaveWallsEveryFrame ==
    /\ NegatedForEachWall
    /\ pc = "draw" =>
          \A i \in 1..Len(obstacles) :
             ~(/\ WallsTouching(began.obstacles[i]) # {}
               /\ WallsTouching(obstacles[i]) # {})
    /\ NoObstacleBeyondWall

\* C14 amended: an obstacle whose moved bounds intersect a wall has its
\* velocity negated for that wall; no obstacle intersects a wall after two
\* consecutive runs of the obstacle loop (the loop does not run while the
\* level is completed, and an obstacle in contact then stays in contact); no
\* obstacle is ever entirely on the far side of a wall from where it started.
ObstaclesLeaveWallsWhenMoved ==
    /\ NegatedForEachWall
    /\ pc = "coins" =>
          \A i \in 1..Len(obstacles) :
             ~(/\ WallsTouching(pre.obstacles[i]) # {}
               /\ WallsTouching(obstacles[i]) # {})
    /\ NoObstacleBeyondWall

\* An obstacle has just moved into a wall and turned there.
TurnedAtWall ==
    /\ pc = "coins"
    /\ \E i \in 1..Len(obstacles) :
          /\ WallsTouching(obstacles[i]) # {}
          /\ WallsTouching(pre.obstacles[i]) = {}
          /\ obstacles[i].velocityX = -pre.obstacles[i].velocityX

\* C15: at the end of an iteration that began and ends with the level not
\* completed the view is centred on (player.x + 200, 300), for the player's
\* final position of the iteration, a reset included; at the end of the
\* iteration that completes the level the view is where it was at its start.
CameraTracksPlayer ==
    pc = "draw" /\ ~began.levelCompleted =>
       IF levelCompleted
       THEN view = began.view
       ELSE view = [x |-> player.x + Px(200), y |-> Px(300)]

\* An iteration in which the R key reset the game and the player then moved
\* has reached its end.
MovedAfterRestart ==
    /\ pc = "draw"
    /\ ~began.levelCompleted
    /\ ~levelCompleted
    /\ resets
    /\ ~hit
    /\ player.x # Px(400)
    /\ began.view.x # view.x

\* C16: coinCount plus the number of active coins is the number of default
\* coin positions, 3, and coinCount is between 0 and 3, in every state.
CoinsConserved ==
    /\ coinCount + Len(coins) = 3
    /\ Len(defaultCoinPositions) = 3
    /\ 0 <= coinCount
    /\ coinCount <= 3

\* The obstacle loop has just reset a game in which a coin was collected.
ResetWithCoinsCollected ==
    /\ pc = "coins"
    /\ resetCalled
    /\ pre.coinCount >= 1
    /\ Len(pre.coins) < 3
    /\ Len(coins) = 3

\* C17: in the level as constructed no run of the obstacle loop negates an
\* obstacle's velocity more than once: a limit and a wall never turn it in
\* the same frame and it never intersects two walls; every obstacle keeps
\* the speed 2 and stays on its patrol.
NoDoubleReversal ==
    /\ pc = "coins" =>
          \A i \in 1..Len(obstacles) :
             /\ (IF AtLimit(pre.obstacles[i]) THEN 1 ELSE 0)
                   + Cardinality(WallsTouching(obstacles[i])) <= 1
             /\ obstacles[i].left
                   = pre.obstacles[i].left + pre.obstacles[i].velocityX
    /\ \A i \in 1..Len(obstacles) :
          /\ obstacles[i].velocityX \in {-Px(2), Px(2)}
          /\ Cardinality(WallsTouching(obstacles[i])) <= 1
          /\ obstacles[i].leftLimit - Px(2) <= obstacles[i].left
          /\ obstacles[i].left + obstacles[i].width
                <= obstacles[i].rightLimit + Px(2)

\* An obstacle moving right has just turned at its right limit, clear of
\* every wall.
TurnedAtRightLimit ==
    /\ pc = "coins"
    /\ \E i \in 1..Len(obstacles) :
          /\ pre.obstacles[i].velocityX > 0
          /\ AtLimit(pre.obstacles[i])
          /\ WallsTouching(obstacles[i]) = {}
          /\ obstacles[i].velocityX < 0

\* C18: resetGame leaves every obstacle's position and velocity as they
\* are: a reset by the R key changes no obstacle, and a run of the obstacle
\* loop, with or without a reset, moves every obstacle on by its velocity
\* from where it was.
ResetKeepsObstacles ==
    /\ ResetGame(Game).obstacles = obstacles
    /\ pc = "poll" /\ resetCalled => obstacles = pre.obstacles
    /\ pc = "coins" /\ resetCalled =>
          \A i \in 1..Len(obstacles) :
             /\ obstacles[i].left
                   = pre.obstacles[i].left + pre.obstacles[i].velocityX
             /\ obstacles[i].velocityX \in {pre.obstacles[i].velocityX,
                                             -pre.obstacles[i].velocityX}
             /\ obstacles[i].leftLimit = pre.obstacles[i].leftLimit
             /\ obstacles[i].rightLimit = pre.obstacles[i].rightLimit

\* The R key has just reset a game whose obstacles are all away from where
\* they started.
RestartWithObstaclesAway ==
    /\ pc = "poll"
    /\ resetCalled
    /\ event.type = "KeyPressed"
    /\ \A i \in 1..Len(obstacles) : obstacles[i].left # initialObstacles[i].left

\* The part of the level obstacle o can be in: its limits, with one step's room.
PatrolRange(o) ==
    [left |-> o.leftLimit - Px(2), top |-> o.top,
     width |-> o.rightLimit - o.leftLimit + Px(4), height |-> o.height]

\* C19: at the end of every iteration the player's bounds intersect no
\* obstacle's bounds, also when the obstacle loop reset the game part-way;
\* the player at (400, 300) is clear of every obstacle's patrol range.
NoObstacleContactAtEnd ==
    /\ pc \in {"draw", "done"} =>
          \A i \in 1..Len(obstacles) :
             ~Intersects(PlayerBounds(player), ObstacleBounds(obstacles[i]))
    /\ \A i \in 1..Len(obstacles) :
          ~Intersects(PlayerBounds([x |-> Px(400), y |-> Px(300)]),
                      PatrolRange(obstacles[i]))

\* An iteration in which the obstacle loop reset the game has reached its
\* end, the obstacles moved on.
EndOfHitIteration ==
    /\ pc = "draw"
    /\ hit
    /\ player = Spawn
    /\ \A i \in 1..Len(obstacles) : obstacles[i].left # began.obstacles[i].left

====
